---- MODULE Spec2Model ----
(***************************************************************************)
(* Game session engine of the Loup-Garou bot (src/main.py).                *)
(*                                                                         *)
(* One GameState object and the coroutines that mutate it.  Every command  *)
(* handler is an asyncio coroutine: the code between two `await`s runs     *)
(* atomically, and at every `await` any other handler may run.  A handler  *)
(* that mutates the game after an `await` is therefore modelled as several *)
(* actions joined by a program counter (start_pc, finish_pc, vote_end_pc). *)
(*                                                                         *)
(* Python's None is modelled as 0 (Discord ids are never 0, and the code   *)
(* itself tests the optional ids by truthiness).                           *)
(***************************************************************************)
EXTENDS Integers, Sequences, FiniteSets, TLC

\* ------------------------------------------------------------------ bounds
\* Users that may join are 1..NumUsers.
NumUsers == 10
\* game.day never goes beyond MaxDay (lg_finish_night is not taken beyond it).
MaxDay == 2
\* Only the users 1..MaxTarget are ever picked in a select menu or named in a vote.
MaxTarget == 3
\* Only the users 1..MaxVoter cast ballots.
MaxVoter == 2
\* Number of participant inputs (menu submissions and ballots) in one game.
MaxInputs == 2
\* Number of menu submissions in the first night, when only that night is explored.
MaxNightInputs == 3
\* Number of /lg resolve_night runs counted per night.
MaxResolve == 2
\* Number of command handlers suspended at an await at the same time.
MaxInflight == 1
\* Number of menu submissions when only the night abilities are explored.
MaxAbilityInputs == 4
\* Only the users 1..MaxAbilityTarget are picked in a menu in that exploration.
MaxAbilityTarget == 2
\* Number of ballots when only the votes are explored.
MaxBallots == 4
\* Only the users 1..MaxBallotVoter cast ballots in that exploration.
MaxBallotVoter == 3
\* check_victory is also evaluated on parties of up to MaxPartyWolves living
\* wolves and MaxPartyOthers other living players.
MaxPartyWolves == 4
MaxPartyOthers == 5
\* Users that may join when only the lobby and the start are explored.
MaxLobbyUsers == 16
\* Commands reserved to the creator are issued by the users 1..MaxCaller there.
MaxCaller == 2
\* Number of ballots when the callers who are not the creator are explored.
MaxAuthBallots == 1
\* random.shuffle yields the reversed list rotated by 0..MaxShuffle places.
MaxShuffle == 0

\* ------------------------------------------------------- program constants
MinPlayers == 8
MaxPlayers == 15
\* interaction.user.id of the creator of the game
created_by == 1

Users == 1..NumUsers
None == 0

WOLF_ROLES == {"loup_garou", "loup_garou_noir"}

\* ------------------------------------------------------------------- state
VARIABLES
    \* GameState
    started, phase, day, players, mayor_id,
    protected_id, seer_target_id, wolf_target_id,
    witch_heal_used, witch_kill_used, witch_heal_target_id, witch_kill_target_id,
    cupid_done, cupid_targets,
    black_infect_used, black_infect_target_id,
    vote,
    \* ActionView objects sent by DM and still usable
    menus,
    \* positions of the coroutines that are suspended at an await
    start_pc, resolve_pc, witch_id, finish_pc, vote_end_pc, winner_id,
    \* kind of the round lg_vote_end is closing ("" when it is not running)
    closing,
    \* last "Seul le créateur de la partie peut ..." reply: to whom, for which command
    denied,
    \* what lg_finish_night last computed and announced
    deaths, final_deaths, inf_txt,
    \* bookkeeping of the exploration
    resolved, inputs

gameVars == <<started, phase, day, players, mayor_id>>
slotVars == <<protected_id, seer_target_id, wolf_target_id,
              witch_heal_target_id, witch_kill_target_id, black_infect_target_id>>
cupidVars == <<cupid_done, cupid_targets>>
usedVars == <<witch_heal_used, witch_kill_used, black_infect_used>>
pcVars == <<start_pc, resolve_pc, witch_id, finish_pc, vote_end_pc, winner_id>>
outVars == <<deaths, final_deaths, inf_txt>>
countVars == <<resolved, inputs>>
replyVars == <<closing, denied>>

vars == <<gameVars, slotVars, cupidVars, usedVars, vote, menus, pcVars, outVars, countVars,
          replyVars>>

\* ----------------------------------------------------------------- helpers
PlayerState(uid) ==
    [user_id |-> uid, role |-> "none", alive |-> TRUE, lover_id |-> None, infected |-> FALSE]

VoteState(active, kind, votes) == [active |-> active, kind |-> kind, votes |-> votes]

NoVotes == [v \in {} |-> None]

is_wolf(role) == role \in WOLF_ROLES

alive_ids(ps) == {pid \in DOMAIN ps : ps[pid].alive}

Repeat(x, k) == [i \in 1..k |-> x]

\* mutant: no black wolf among three wolves
RoleList_NoBlack(n) ==
    LET core == <<"voyante", "sorciere", "garde", "chasseur", "cupidon">>
        wolves == IF n <= 9 THEN <<"loup_garou", "loup_garou">>
                  ELSE IF n <= 12 THEN <<"loup_garou", "loup_garou", "loup_garou">>
                  ELSE <<"loup_garou", "loup_garou_noir", "loup_garou", "loup_garou">>
        pf == IF n >= 10 THEN <<"petite_fille">> ELSE << >>
        fixed == core \o wolves \o pf
    IN  fixed \o [i \in 1..(n - Len(fixed)) |-> "villageois"]

\* role_distribution before the shuffle
RoleList(n) ==
    LET core == <<"voyante", "sorciere", "garde", "chasseur", "cupidon">>
        wolves == IF n <= 9 THEN <<"loup_garou", "loup_garou">>
                  ELSE IF n <= 12 THEN <<"loup_garou", "loup_garou_noir", "loup_garou">>
                  ELSE <<"loup_garou", "loup_garou_noir", "loup_garou", "loup_garou">>
        pf == IF n >= 10 THEN <<"petite_fille">> ELSE << >>
        fixed == core \o wolves \o pf
    IN  fixed \o Repeat("villageois", n - Len(fixed))

Reverse(s) == [i \in 1..Len(s) |-> s[Len(s) + 1 - i]]

Rotate(s, k) == [i \in 1..Len(s) |-> s[((i - 1 + k) % Len(s)) + 1]]

\* outcomes of random.shuffle: the reversed list, rotated left by 0..MaxShuffle places
Shuffles(s) == {Rotate(Reverse(s), k) : k \in 0..MaxShuffle}

\* the possible results; none when the size check raises ValueError
role_distribution(n) ==
    IF n < MinPlayers \/ n > MaxPlayers THEN {} ELSE Shuffles(RoleList(n))

\* mutant: the wolves win only with a strict majority
check_victory_Majority(ps, st) ==
    LET alive == alive_ids(ps)
        wolves == Cardinality({p \in alive : is_wolf(ps[p].role)})
        others == Cardinality({p \in alive : ~is_wolf(ps[p].role)})
    IN  IF wolves = 0 /\ st THEN "village"
        ELSE IF wolves > others /\ st /\ wolves > 0 THEN "wolves"
        ELSE "none"

check_victory(ps, st) ==
    LET alive == alive_ids(ps)
        wolves == Cardinality({p \in alive : is_wolf(ps[p].role)})
        others == Cardinality({p \in alive : ~is_wolf(ps[p].role)})
    IN  IF wolves = 0 /\ st THEN "village"
        ELSE IF wolves >= others /\ st /\ wolves > 0 THEN "wolves"
        ELSE "none"

\* number of handlers suspended at an await
Inflight ==
    (IF start_pc # "idle" THEN 1 ELSE 0) + (IF resolve_pc # "idle" THEN 1 ELSE 0)
    + (IF finish_pc # "idle" THEN 1 ELSE 0) + (IF vote_end_pc # "idle" THEN 1 ELSE 0)

\* -------------------------------------------------------------------- Init
Init ==
    /\ started = FALSE
    /\ phase = "lobby"
    /\ day = 0
    /\ players = [u \in {} |-> PlayerState(u)]
    /\ mayor_id = None
    /\ protected_id = None
    /\ seer_target_id = None
    /\ wolf_target_id = None
    /\ witch_heal_used = FALSE
    /\ witch_kill_used = FALSE
    /\ witch_heal_target_id = None
    /\ witch_kill_target_id = None
    /\ cupid_done = FALSE
    /\ cupid_targets = << >>
    /\ black_infect_used = FALSE
    /\ black_infect_target_id = None
    /\ vote = VoteState(FALSE, "", NoVotes)
    /\ menus = {}
    /\ start_pc = "idle"
    /\ resolve_pc = "idle"
    /\ witch_id = None
    /\ finish_pc = "idle"
    /\ vote_end_pc = "idle"
    /\ winner_id = None
    /\ closing = ""
    /\ denied = [user_id |-> None, command |-> ""]
    /\ deaths = {}
    /\ final_deaths = {}
    /\ inf_txt = None
    /\ resolved = 0
    /\ inputs = 0

\* mutant: nobody is taken for a stranger
NotOwner_Never(caller) == FALSE

\* "if interaction.user.id != game.created_by"
NotOwner(caller) == caller # created_by

\* mutant: the reply is sent, but the game is stopped all the same
Denied_Stops(caller, command) ==
    /\ denied' = [user_id |-> caller, command |-> command]
    /\ phase' = "ended"
    /\ UNCHANGED <<started, day, players, mayor_id, slotVars, cupidVars, usedVars, vote,
                   menus, pcVars, outVars, countVars, closing>>

\* the early return of a command reserved to the creator: "Seul le créateur de
\* la partie peut ..." is sent to the caller and nothing else happens
Denied(caller, command) ==
    /\ denied' = [user_id |-> caller, command |-> command]
    /\ UNCHANGED <<gameVars, slotVars, cupidVars, usedVars, vote, menus, pcVars, outVars,
                   countVars, closing>>

\* ------------------------------------------------------------------- lobby
\* /lg join.  Users join in the order of their ids.
lg_join(uid) ==
    /\ phase # "ended"
    /\ ~started
    /\ uid \notin DOMAIN players
    /\ \A u \in 1..(uid - 1) : u \in DOMAIN players
    /\ players' = [u \in DOMAIN players \cup {uid} |->
                      IF u = uid THEN PlayerState(uid) ELSE players[u]]
    /\ UNCHANGED <<started, phase, day, mayor_id, slotVars, cupidVars, usedVars,
                   vote, menus, pcVars, outVars, countVars, replyVars>>

\* /lg leave.  The user who joined last leaves.
lg_leave(uid) ==
    /\ phase # "ended"
    /\ ~started
    /\ uid \in DOMAIN players
    /\ \A u \in DOMAIN players : u <= uid
    /\ players' = [u \in DOMAIN players \ {uid} |-> players[u]]
    /\ UNCHANGED <<started, phase, day, mayor_id, slotVars, cupidVars, usedVars,
                   vote, menus, pcVars, outVars, countVars, replyVars>>

\* /lg start, up to its first await: roles are dealt and the first night begins.
lg_start(caller) ==
    /\ phase # "ended"
    /\ IF NotOwner(caller)
       THEN Denied(caller, "start")
       ELSE /\ ~started
            /\ Cardinality(DOMAIN players) >= MinPlayers
            /\ Cardinality(DOMAIN players) <= MaxPlayers
            /\ \E roles \in role_distribution(Cardinality(DOMAIN players)) :
                 \* the players are 1..n here, so zip(items, roles) deals roles[pid] to pid
                 players' = [pid \in DOMAIN players |-> [players[pid] EXCEPT !.role = roles[pid]]]
            /\ started' = TRUE
            /\ phase' = "night"
            /\ day' = 0
            /\ start_pc' = "night"
            /\ resolved' = 0
            /\ UNCHANGED <<mayor_id, slotVars, cupidVars, usedVars, vote, menus,
                           finish_pc, resolve_pc, witch_id, vote_end_pc, winner_id, outVars,
                           inputs, replyVars>>

\* --------------------------------------------------------- night prompts
First(S) == IF S = {} THEN None ELSE CHOOSE x \in S : \A y \in S : x <= y

\* next((pid for pid, p in game.players.items() if p.alive and p.role == role), None)
Holder(ps, role) == First({pid \in alive_ids(ps) : ps[pid].role = role})

\* ActionView / TargetSelect.__init__: the options are the players alive when the
\* menu is built, without the actor unless allow_self.
ActionView(ps, actor_id, action_key, allow_self) ==
    [actor_id |-> actor_id, action_key |-> action_key,
     opts |-> alive_ids(ps) \ (IF allow_self THEN {} ELSE {actor_id})]

ViewFor(ps, role, action_key, allow_self) ==
    IF Holder(ps, role) = None THEN {}
    ELSE {ActionView(ps, Holder(ps, role), action_key, allow_self)}

\* send_night_actions, one action per stretch between awaits.  pc is the caller's
\* program counter (lg_start or lg_vote_end), npc its next value.
send_reset(pc, npc, first_night) ==
    /\ pc = "night"
    /\ protected_id' = None
    /\ seer_target_id' = None
    /\ wolf_target_id' = None
    /\ witch_heal_target_id' = None
    /\ witch_kill_target_id' = None
    /\ black_infect_target_id' = None
    /\ menus' = menus \cup
                 (IF first_night /\ ~cupid_done
                  THEN ViewFor(players, "cupidon", "cupidon", FALSE) ELSE {})
    /\ npc = "menus"

\* the menus of the guard, the seer, the wolves and the black wolf.  The awaits
\* between these DMs are not program points of their own: nothing but `menus`
\* is written between them.
send_menus(pc, npc) ==
    /\ pc = "menus"
    /\ menus' = menus
                 \cup ViewFor(players, "garde", "guard", TRUE)
                 \cup ViewFor(players, "voyante", "seer", FALSE)
                 \cup {ActionView(players, wid, "wolves", FALSE) :
                         wid \in {pid \in alive_ids(players) : players[pid].role \in WOLF_ROLES}}
                 \cup (IF ~black_infect_used
                       THEN ViewFor(players, "loup_garou_noir", "black_infect", FALSE)
                       ELSE {})
    /\ npc = "idle"

\* lg_start after its awaits: send_night_actions(game, guild, first_night=True)
start_reset ==
    /\ send_reset(start_pc, start_pc', TRUE)
    /\ UNCHANGED <<gameVars, cupidVars, usedVars, vote, resolve_pc, witch_id, finish_pc,
                   vote_end_pc, winner_id, outVars, countVars, replyVars>>

start_menus ==
    /\ send_menus(start_pc, start_pc')
    /\ UNCHANGED <<gameVars, slotVars, cupidVars, usedVars, vote, resolve_pc, witch_id, finish_pc,
                   vote_end_pc, winner_id, outVars, countVars, replyVars>>

\* ------------------------------------------------------ TargetSelect.callback
\* The actor of a menu picks `selected` among its options.  There is no test of
\* the phase, of the actor being alive, or of the menu belonging to this night.
Selections(m) ==
    LET T == m.opts \cap (1..MaxTarget)
    IN  IF m.action_key = "cupidon"
        THEN {<<a>> : a \in T} \cup {s \in T \X T : s[1] < s[2]}
        ELSE {<<a>> : a \in T}

callback(m, selected, budget) ==
    /\ inputs < budget
    /\ inputs' = inputs + 1
    /\ seer_target_id' = IF m.action_key = "seer" THEN selected[1] ELSE seer_target_id
    /\ protected_id' = IF m.action_key = "guard" THEN selected[1] ELSE protected_id
    /\ wolf_target_id' = IF m.action_key = "wolves" THEN selected[1] ELSE wolf_target_id
    /\ witch_heal_target_id' =
           IF m.action_key = "witch_heal" THEN selected[1] ELSE witch_heal_target_id
    /\ witch_kill_target_id' =
           IF m.action_key = "witch_kill" THEN selected[1] ELSE witch_kill_target_id
    /\ cupid_targets' = IF m.action_key = "cupidon" THEN selected ELSE cupid_targets
    /\ cupid_done' = IF m.action_key = "cupidon" THEN TRUE ELSE cupid_done
    /\ black_infect_target_id' =
           IF m.action_key = "black_infect" THEN selected[1] ELSE black_infect_target_id
    /\ UNCHANGED <<gameVars, usedVars, vote, menus, pcVars, outVars, resolved, replyVars>>

\* -------------------------------------------------------- /lg resolve_night
\* "Apply Cupidon": the two picked players become each other's lover.
ApplyCupid(ps, done, targets) ==
    IF done /\ Len(targets) = 2
    THEN IF targets[1] \in DOMAIN ps /\ targets[2] \in DOMAIN ps
         THEN [pid \in DOMAIN ps |->
                  IF pid = targets[2] THEN [ps[pid] EXCEPT !.lover_id = targets[1]]
                  ELSE IF pid = targets[1] THEN [ps[pid] EXCEPT !.lover_id = targets[2]]
                  ELSE ps[pid]]
         ELSE ps
    ELSE ps

\* mutant: the guard's protection is ignored
WolfVictim_Unprotected(wolf_target, protected) == wolf_target

\* the wolves' victim unless the guard protects it
WolfVictim(wolf_target, protected) ==
    IF wolf_target # None /\ protected = wolf_target THEN None ELSE wolf_target

\* the seer's result is sent by DM (an await) only in this case
SeerResultSent ==
    /\ seer_target_id # None
    /\ Holder(players, "voyante") # None
    /\ seer_target_id \in DOMAIN players

\* "if not game.witch_kill_used": the poison menu, last stretch of the handler
PoisonPrompt(witch) ==
    /\ menus' = menus \cup
                 (IF ~witch_kill_used
                  THEN {ActionView(players, witch, "witch_kill", FALSE)} ELSE {})
    /\ resolve_pc' = "idle"
    /\ witch_id' = None

\* "Ask Witch now": the heal menu is sent when a victim is pending and the heal
\* is unused; sending it is an await, after which the poison menu follows.
WitchPrompt ==
    LET witch == Holder(players, "sorciere")
        victim_id == WolfVictim(wolf_target_id, protected_id)
    IN  IF witch = None
        THEN menus' = menus /\ resolve_pc' = "idle" /\ witch_id' = None
        ELSE IF victim_id # None /\ ~witch_heal_used
             THEN /\ menus' = menus \cup {ActionView(players, witch, "witch_heal", FALSE)}
                  /\ resolve_pc' = "poison"
                  /\ witch_id' = witch
             ELSE PoisonPrompt(witch)

lg_resolve_night(caller) ==
    /\ phase # "ended"
    /\ IF NotOwner(caller)
       THEN Denied(caller, "resolve_night")
       ELSE /\ phase = "night"
            /\ resolve_pc = "idle"
            /\ Inflight < MaxInflight
            /\ resolved < MaxResolve
            /\ resolved' = resolved + 1
            /\ players' = ApplyCupid(players, cupid_done, cupid_targets)
            /\ IF SeerResultSent
               THEN menus' = menus /\ resolve_pc' = "witch" /\ witch_id' = None
               ELSE WitchPrompt
            /\ UNCHANGED <<started, phase, day, mayor_id, slotVars, cupidVars, usedVars, vote,
                           start_pc, finish_pc, vote_end_pc, winner_id, outVars,
                           inputs, replyVars>>

resolve_witch ==
    /\ resolve_pc = "witch"
    /\ WitchPrompt
    /\ UNCHANGED <<gameVars, slotVars, cupidVars, usedVars, vote,
                   start_pc, finish_pc, vote_end_pc, winner_id, outVars, countVars,
                   replyVars>>

resolve_poison ==
    /\ resolve_pc = "poison"
    /\ PoisonPrompt(witch_id)
    /\ UNCHANGED <<gameVars, slotVars, cupidVars, usedVars, vote,
                   start_pc, finish_pc, vote_end_pc, winner_id, outVars, countVars,
                   replyVars>>

\* --------------------------------------------------------- /lg finish_night
\* list(S) in increasing order
RECURSIVE SetToSeq(_)
SetToSeq(S) == IF S = {} THEN << >> ELSE <<First(S)>> \o SetToSeq(S \ {First(S)})

\* mutant: a popped identity is finalized whether or not it is alive
RECURSIVE LoversChain_Dead(_, _, _)
LoversChain_Dead(stack, final, ps) ==
    IF stack = << >> THEN final
    ELSE LET d == stack[Len(stack)]
             rest == SubSeq(stack, 1, Len(stack) - 1)
         IN  IF d \in final THEN LoversChain_Dead(rest, final, ps)
             ELSE IF d \notin DOMAIN ps THEN LoversChain_Dead(rest, final \cup {d}, ps)
             ELSE LET lover == ps[d].lover_id
                  IN  IF lover # None /\ lover \in DOMAIN ps /\ ps[lover].alive
                      THEN LoversChain_Dead(Append(rest, lover), final \cup {d}, ps)
                      ELSE LoversChain_Dead(rest, final \cup {d}, ps)

\* "Apply deaths + lovers chain": the while loop over the stack
RECURSIVE LoversChain(_, _, _)
LoversChain(stack, final, ps) ==
    IF stack = << >> THEN final
    ELSE LET d == stack[Len(stack)]
             rest == SubSeq(stack, 1, Len(stack) - 1)
         IN  IF d \in final THEN LoversChain(rest, final, ps)
             ELSE IF d \notin DOMAIN ps \/ ~ps[d].alive THEN LoversChain(rest, final, ps)
             ELSE LET lover == ps[d].lover_id
                  IN  IF lover # None /\ lover \in DOMAIN ps /\ ps[lover].alive
                      THEN LoversChain(Append(rest, lover), final \cup {d}, ps)
                      ELSE LoversChain(rest, final \cup {d}, ps)

\* The same loop run for at most fuel iterations: done tells whether the stack
\* emptied, steps counts the iterations taken.
RECURSIVE LoversChainRun(_, _, _, _, _)
LoversChainRun(stack, final, ps, fuel, steps) ==
    IF stack = << >> THEN [done |-> TRUE, final |-> final, steps |-> steps]
    ELSE IF fuel = 0 THEN [done |-> FALSE, final |-> final, steps |-> steps]
    ELSE LET d == stack[Len(stack)]
             rest == SubSeq(stack, 1, Len(stack) - 1)
         IN  IF d \in final THEN LoversChainRun(rest, final, ps, fuel - 1, steps + 1)
             ELSE IF d \notin DOMAIN ps \/ ~ps[d].alive
                  THEN LoversChainRun(rest, final, ps, fuel - 1, steps + 1)
             ELSE LET lover == ps[d].lover_id
                  IN  IF lover # None /\ lover \in DOMAIN ps /\ ps[lover].alive
                      THEN LoversChainRun(Append(rest, lover), final \cup {d}, ps,
                                          fuel - 1, steps + 1)
                      ELSE LoversChainRun(rest, final \cup {d}, ps, fuel - 1, steps + 1)

\* mutant: nobody is marked dead
MarkDead_Spared(ps, final) == ps

\* mutant: whoever is not among the dead of this run is alive
MarkDead_Revives(ps, final) ==
    [pid \in DOMAIN ps |-> [ps[pid] EXCEPT !.alive = (pid \notin final)]]

\* "Mark dead"
MarkDead(ps, final) ==
    [pid \in DOMAIN ps |-> IF pid \in final THEN [ps[pid] EXCEPT !.alive = FALSE] ELSE ps[pid]]

\* "Witch heal": the heal is applied when a target is set and the heal is unused
HealApplies == witch_heal_target_id # None /\ ~witch_heal_used

\* mutant: the heal is consumed without cancelling the kill
HealedVictim_NoCancel(victim_id) == victim_id

HealedVictim(victim_id) ==
    IF HealApplies /\ victim_id = witch_heal_target_id THEN None ELSE victim_id

\* "Black wolf infection (1 time)"
InfectApplies(ps) ==
    /\ black_infect_target_id # None
    /\ ~black_infect_used
    /\ black_infect_target_id \in DOMAIN ps
    /\ ps[black_infect_target_id].alive
    /\ ~is_wolf(ps[black_infect_target_id].role)

\* mutant: the target is marked infected but keeps its role
Infect_Marked(ps) ==
    IF InfectApplies(ps)
    THEN [pid \in DOMAIN ps |->
             IF pid = black_infect_target_id
             THEN [ps[pid] EXCEPT !.infected = TRUE]
             ELSE ps[pid]]
    ELSE ps

Infect(ps) ==
    IF InfectApplies(ps)
    THEN [pid \in DOMAIN ps |->
             IF pid = black_infect_target_id
             THEN [ps[pid] EXCEPT !.role = "loup_garou", !.infected = TRUE]
             ELSE ps[pid]]
    ELSE ps

\* mutant: the infected victim is still killed by the wolves
InfectedVictim_NoOverride(victim_id, ps) == victim_id

InfectedVictim(victim_id, ps) ==
    IF InfectApplies(ps) /\ victim_id = black_infect_target_id THEN None ELSE victim_id

\* mutant: the poison is applied again after it was used
PoisonApplies_Reusable == witch_kill_target_id # None

\* "Witch poison"
PoisonApplies == witch_kill_target_id # None /\ ~witch_kill_used

\* mutant: the poison spares the participant the guard protects
PoisonDeaths_Guarded ==
    IF PoisonApplies /\ witch_kill_target_id # protected_id THEN {witch_kill_target_id} ELSE {}

PoisonDeaths == IF PoisonApplies THEN {witch_kill_target_id} ELSE {}

\* the set `deaths` before the lovers chain
DirectDeaths ==
    LET victim_id ==
            InfectedVictim(HealedVictim(WolfVictim(wolf_target_id, protected_id)), players)
    IN  (IF victim_id # None THEN {victim_id} ELSE {}) \cup PoisonDeaths

\* from the guards to the first await (the day announcement)
lg_finish_night(caller) ==
    /\ phase # "ended"
    /\ IF NotOwner(caller)
       THEN Denied(caller, "finish_night")
       ELSE /\ phase = "night"
            /\ finish_pc = "idle"
            /\ Inflight < MaxInflight
            /\ day < MaxDay
            /\ witch_heal_used' = (witch_heal_used \/ HealApplies)
            /\ black_infect_used' = (black_infect_used \/ InfectApplies(players))
            /\ witch_kill_used' = (witch_kill_used \/ PoisonApplies)
            /\ deaths' = DirectDeaths
            /\ final_deaths' = LoversChain(SetToSeq(deaths'), {}, Infect(players))
            /\ players' = MarkDead(Infect(players), final_deaths')
            /\ day' = day + 1
            /\ phase' = "day"
            /\ inf_txt' = IF black_infect_target_id # None /\ black_infect_used'
                          THEN black_infect_target_id ELSE None
            /\ finish_pc' = "victory"
            /\ UNCHANGED <<started, mayor_id, slotVars, cupidVars, vote, menus,
                           start_pc, resolve_pc, witch_id, vote_end_pc, winner_id, countVars,
                           replyVars>>

\* after the announcement: "Check victory"
finish_victory ==
    /\ finish_pc = "victory"
    /\ finish_pc' = "idle"
    /\ phase' = IF check_victory(players, started) # "none" THEN "ended" ELSE phase
    /\ UNCHANGED <<started, day, players, mayor_id, slotVars, cupidVars, usedVars, vote,
                   menus, start_pc, resolve_pc, witch_id, vote_end_pc, winner_id,
                   outVars, countVars, replyVars>>

\* ------------------------------------------------------------------- votes
\* /lg mayor_start and /lg dayvote_start: a fresh VoteState replaces game.vote
open_vote(caller, kind) ==
    /\ phase # "ended"
    /\ IF NotOwner(caller)
       THEN Denied(caller, IF kind = "mayor" THEN "mayor_start" ELSE "dayvote_start")
       ELSE /\ phase = "day"
            /\ vote' = VoteState(TRUE, kind, NoVotes)
            /\ UNCHANGED <<gameVars, slotVars, cupidVars, usedVars, menus, pcVars, outVars,
                           countVars, replyVars>>

lg_mayor_start(caller) == open_vote(caller, "mayor")

lg_dayvote_start(caller) == open_vote(caller, "daykill")

\* mutant: a dead participant passes the test
can_vote_Dead(ps, uid) == uid \in DOMAIN ps

\* "uid not in game.players or not game.players[uid].alive", negated
can_vote(ps, uid) == uid \in DOMAIN ps /\ ps[uid].alive

\* /lg vote
lg_vote(voter, cible, budget) ==
    /\ phase # "ended"
    /\ vote.active
    /\ can_vote(players, voter)
    /\ can_vote(players, cible)
    /\ inputs < budget
    /\ inputs' = inputs + 1
    /\ vote' = [vote EXCEPT !.votes =
                    [v \in DOMAIN vote.votes \cup {voter} |->
                        IF v = voter THEN cible ELSE vote.votes[v]]]
    /\ UNCHANGED <<gameVars, slotVars, cupidVars, usedVars, menus, pcVars, outVars,
                   resolved, replyVars>>

\* mutant: the mayor's ballot counts double in every kind of round
weight_AnyKind(voter, mayor, kind) ==
    IF mayor # None /\ voter = mayor THEN 2 ELSE 1

\* weight of one ballot
weight(voter, mayor, kind) ==
    IF mayor # None /\ voter = mayor /\ kind = "daykill" THEN 2 ELSE 1

RECURSIVE SumWeights(_, _, _)
SumWeights(voters, mayor, kind) ==
    IF voters = {} THEN 0
    ELSE weight(First(voters), mayor, kind) + SumWeights(voters \ {First(voters)}, mayor, kind)

\* counts[target] of tally_votes
counts(v, mayor, target) ==
    SumWeights({voter \in DOMAIN v.votes : v.votes[voter] = target}, mayor, v.kind)

\* mutant: on a tie the first of the top targets wins
tally_votes_First(v, mayor) ==
    LET targets == {v.votes[voter] : voter \in DOMAIN v.votes}
        top == {t \in targets : \A u \in targets : counts(v, mayor, u) <= counts(v, mayor, t)}
    IN  First(top)

\* the winner of tally_votes (None on a tie or without ballots)
tally_votes(v, mayor) ==
    LET targets == {v.votes[voter] : voter \in DOMAIN v.votes}
        top == {t \in targets : \A u \in targets : counts(v, mayor, u) <= counts(v, mayor, t)}
    IN  IF targets = {} THEN None
        ELSE IF Cardinality(top) # 1 THEN None
        ELSE CHOOSE t \in top : TRUE

\* /lg vote_end up to its first await (the results message)
lg_vote_end(caller) ==
    /\ phase # "ended"
    /\ IF NotOwner(caller)
       THEN Denied(caller, "vote_end")
       ELSE /\ vote.active
            /\ vote_end_pc = "idle"
            /\ Inflight < MaxInflight
            /\ winner_id' = tally_votes(vote, mayor_id)
            /\ closing' = vote.kind
            /\ vote' = [vote EXCEPT !.active = FALSE]
            /\ vote_end_pc' = "apply"
            /\ UNCHANGED <<gameVars, slotVars, cupidVars, usedVars, menus,
                           start_pc, resolve_pc, witch_id, finish_pc, outVars, countVars,
                           denied>>

\* after the results message: game.vote.kind is read now, and the result applied
vote_end_apply ==
    /\ vote_end_pc = "apply"
    /\ IF vote.kind = "mayor"
       THEN /\ mayor_id' = IF winner_id = None THEN mayor_id ELSE winner_id
            /\ players' = players
            /\ vote_end_pc' = "idle"
            /\ winner_id' = None
            /\ closing' = ""
       ELSE /\ mayor_id' = mayor_id
            /\ players' = IF winner_id = None THEN players
                          ELSE MarkDead(players, LoversChain(<<winner_id>>, {}, players))
            /\ vote_end_pc' = "victory"
            /\ winner_id' = winner_id
            /\ closing' = closing
    /\ UNCHANGED <<started, phase, day, slotVars, cupidVars, usedVars, vote, menus,
                   start_pc, resolve_pc, witch_id, finish_pc, outVars, countVars, denied>>

\* after the elimination message: "victory?" and "Next night"
vote_end_victory ==
    /\ vote_end_pc = "victory"
    /\ IF check_victory(players, started) # "none"
       THEN phase' = "ended" /\ vote_end_pc' = "idle" /\ resolved' = resolved
       ELSE phase' = "night" /\ vote_end_pc' = "night" /\ resolved' = 0
    /\ winner_id' = None
    /\ closing' = ""
    /\ UNCHANGED <<started, day, players, mayor_id, slotVars, cupidVars, usedVars, vote,
                   menus, start_pc, resolve_pc, witch_id, finish_pc, outVars,
                   inputs, denied>>

\* send_night_actions(game, guild, first_night=False)
vote_end_reset ==
    /\ send_reset(vote_end_pc, vote_end_pc', FALSE)
    /\ UNCHANGED <<gameVars, cupidVars, usedVars, vote, start_pc, resolve_pc, witch_id,
                   finish_pc, winner_id, outVars, countVars, replyVars>>

vote_end_menus ==
    /\ send_menus(vote_end_pc, vote_end_pc')
    /\ UNCHANGED <<gameVars, slotVars, cupidVars, usedVars, vote, start_pc, resolve_pc,
                   witch_id, finish_pc, winner_id, outVars, countVars, replyVars>>

\* --------------------------------------------------------------- /lg end
lg_end(caller) ==
    /\ IF NotOwner(caller)
       THEN Denied(caller, "end")
       ELSE /\ phase' = "ended"
            /\ UNCHANGED <<started, day, players, mayor_id, slotVars, cupidVars, usedVars, vote,
                           menus, pcVars, outVars, countVars, replyVars>>

\* ------------------------------------------------------------------- Next
Callers == {created_by}

Next ==
    \/ \E uid \in Users : lg_join(uid)
    \/ \E uid \in Users : lg_leave(uid)
    \/ \E caller \in Callers : lg_start(caller)
    \/ start_reset
    \/ start_menus
    \/ \E m \in menus : \E selected \in Selections(m) : callback(m, selected, MaxInputs)
    \/ \E caller \in Callers : lg_resolve_night(caller)
    \/ resolve_witch
    \/ resolve_poison
    \/ \E caller \in Callers : lg_finish_night(caller)
    \/ finish_victory
    \/ \E caller \in Callers : lg_mayor_start(caller)
    \/ \E caller \in Callers : lg_dayvote_start(caller)
    \/ \E voter \in 1..MaxVoter : \E cible \in 1..MaxTarget : lg_vote(voter, cible, MaxInputs)
    \/ \E caller \in Callers : lg_vote_end(caller)
    \/ vote_end_apply
    \/ vote_end_victory
    \/ vote_end_reset
    \/ vote_end_menus
    \/ \E caller \in Callers : lg_end(caller)

Spec == Init /\ [][Next]_vars

\* The lobby and the first night alone (no vote, no /lg end), with one more
\* menu submission than Spec allows.
NextNight ==
    \/ \E uid \in Users : lg_join(uid)
    \/ \E uid \in Users : lg_leave(uid)
    \/ \E caller \in Callers : lg_start(caller)
    \/ start_reset
    \/ start_menus
    \/ \E m \in menus : \E selected \in Selections(m) : callback(m, selected, MaxNightInputs)
    \/ \E caller \in Callers : lg_resolve_night(caller)
    \/ resolve_witch
    \/ resolve_poison
    \/ \E caller \in Callers : lg_finish_night(caller)
    \/ finish_victory

SpecNight == Init /\ [][NextNight]_vars

\* The nights and the day eliminations between them, with the menus of the
\* wolves, the witch and the black wolf only (no ballot, no /lg end), and more
\* menu submissions than Spec allows.  The seer's menu is never answered here,
\* so lg_resolve_night never stops at the seer's DM.
AbilityKeys == {"wolves", "witch_heal", "witch_kill", "black_infect"}

NextAbilities ==
    \/ \E uid \in Users : lg_join(uid)
    \/ \E uid \in Users : lg_leave(uid)
    \/ \E caller \in Callers : lg_start(caller)
    \/ start_reset
    \/ start_menus
    \/ \E m \in {x \in menus : x.action_key \in AbilityKeys} :
           \E selected \in {x \in Selections(m) : x[1] <= MaxAbilityTarget} :
               callback(m, selected, MaxAbilityInputs)
    \/ \E caller \in Callers : lg_resolve_night(caller)
    \/ resolve_poison
    \/ \E caller \in Callers : lg_finish_night(caller)
    \/ finish_victory
    \/ \E caller \in Callers : lg_dayvote_start(caller)
    \/ \E caller \in Callers : lg_vote_end(caller)
    \/ vote_end_apply
    \/ vote_end_victory
    \/ vote_end_reset
    \/ vote_end_menus

SpecAbilities == Init /\ [][NextAbilities]_vars

\* The votes alone: the nights are applied without any menu submission, and
\* more ballots are cast than Spec allows.
NextVote ==
    \/ \E uid \in Users : lg_join(uid)
    \/ \E uid \in Users : lg_leave(uid)
    \/ \E caller \in Callers : lg_start(caller)
    \/ start_reset
    \/ start_menus
    \/ \E caller \in Callers : lg_finish_night(caller)
    \/ finish_victory
    \/ \E caller \in Callers : lg_mayor_start(caller)
    \/ \E caller \in Callers : lg_dayvote_start(caller)
    \/ \E voter \in 1..MaxBallotVoter : \E cible \in 1..MaxTarget :
           lg_vote(voter, cible, MaxBallots)
    \/ \E caller \in Callers : lg_vote_end(caller)
    \/ vote_end_apply
    \/ vote_end_victory
    \/ vote_end_reset
    \/ vote_end_menus

SpecVote == Init /\ [][NextVote]_vars

\* The lobby and the start alone, with parties of up to MaxLobbyUsers users and
\* with callers who are not the creator.
NextLobby ==
    \/ \E uid \in 1..MaxLobbyUsers : lg_join(uid)
    \/ \E uid \in 1..MaxLobbyUsers : lg_leave(uid)
    \/ \E caller \in 1..MaxCaller : lg_start(caller)
    \/ start_reset
    \/ start_menus
    \/ \E caller \in 1..MaxCaller : lg_end(caller)

SpecLobby == Init /\ [][NextLobby]_vars

\* The whole game without menu submission, every command reserved to the
\* creator being issued by other users too.  No menu is answered here, so
\* lg_resolve_night never stops at the seer's or the witch's DM.
NextAuth ==
    \/ \E uid \in Users : lg_join(uid)
    \/ \E uid \in Users : lg_leave(uid)
    \/ \E caller \in 1..MaxCaller : lg_start(caller)
    \/ start_reset
    \/ start_menus
    \/ \E caller \in 1..MaxCaller : lg_resolve_night(caller)
    \/ \E caller \in 1..MaxCaller : lg_finish_night(caller)
    \/ finish_victory
    \/ \E caller \in 1..MaxCaller : lg_mayor_start(caller)
    \/ \E caller \in 1..MaxCaller : lg_dayvote_start(caller)
    \/ \E voter \in 1..MaxVoter : \E cible \in 1..MaxTarget :
           lg_vote(voter, cible, MaxAuthBallots)
    \/ \E caller \in 1..MaxCaller : lg_vote_end(caller)
    \/ vote_end_apply
    \/ vote_end_victory
    \/ vote_end_reset
    \/ vote_end_menus
    \/ \E caller \in 1..MaxCaller : lg_end(caller)

SpecAuth == Init /\ [][NextAuth]_vars

\* =================================================================== claims
\* the step in which lg_finish_night applies the night
FinishStep == finish_pc = "idle" /\ finish_pc' = "victory"

\* a TargetSelect.callback step
SubmitStep == \E m \in menus : \E selected \in Selections(m) : callback(m, selected, MaxInputs)

Joined == DOMAIN players

Lover(p) == players[p].lover_id

\* the poison takes effect in this lg_finish_night
PoisonPending == witch_kill_target_id # None /\ ~witch_kill_used

\* C1: once the phase is "ended" it stays "ended", whatever runs or resumes later.
C1_EndedStaysEnded == [][phase = "ended" => phase' = "ended"]_vars

\* C2: a menu submission made while the phase is not "night" changes no
\* night-action slot and not the Cupid flag or pairing.
C2_SubmitOnlyAtNight ==
    [][(SubmitStep /\ phase # "night") => UNCHANGED <<slotVars, cupidVars>>]_vars

\* C3: lg_finish_night applies a night only after lg_resolve_night has run in
\* that night, and lg_resolve_night runs at most once per night.
C3_NightOrder ==
    [][(FinishStep => resolved >= 1) /\ resolved' <= 1]_vars

\* C4: the bond is symmetric and at most two participants have one.
C4_BondSymmetric ==
    /\ \A p \in Joined : Lover(p) # None => Lover(p) \in Joined /\ Lover(Lover(p)) = p
    /\ Cardinality({p \in Joined : Lover(p) # None}) <= 2

\* C5: a lover_id is written only in the first night (day = 0), and only when
\* it was unset before.
C5_BondFirstNightOnce ==
    [][\A p \in Joined \cap DOMAIN players' :
          players'[p].lover_id # players[p].lover_id
              => day = 0 /\ phase = "night" /\ players[p].lover_id = None]_vars

\* C6: two participants bonded to each other are both alive or both dead.
C6_BondedDieTogether ==
    \A p \in Joined : \A q \in Joined :
        (Lover(p) = q /\ Lover(q) = p) => (players[p].alive <=> players[q].alive)

\* the infection of lg_finish_night hits the wolves' own target t
InfectsWolfTarget(t) ==
    /\ FinishStep
    /\ ~black_infect_used
    /\ black_infect_target_id = t
    /\ wolf_target_id = t
    /\ t \in Joined
    /\ players[t].alive
    /\ ~is_wolf(players[t].role)

\* C7 as claimed: the participant the black wolf infects and the wolves target is,
\* after lg_finish_night, alive, a loup_garou and marked infected.
C7_InfectedSurvives ==
    [][\A t \in Users : InfectsWolfTarget(t) =>
          /\ players'[t].alive
          /\ players'[t].role = "loup_garou"
          /\ players'[t].infected]_vars

\* C7 amended: that participant becomes a loup_garou marked infected, is in the
\* direct kills only as the target of the unused poison, and dies that night only
\* through that poison or as the lover of another participant who dies.
C7_InfectionOverridesKill ==
    [][\A t \in Users : InfectsWolfTarget(t) =>
          /\ players'[t].role = "loup_garou"
          /\ players'[t].infected
          /\ black_infect_used'
          /\ t \in deaths' => (PoisonPending /\ witch_kill_target_id = t)
          /\ ~players'[t].alive =>
                \/ PoisonPending /\ witch_kill_target_id = t
                \/ \E d \in final_deaths' \ {t} : players[d].lover_id = t]_vars

\* C7 witness: a night was applied in which the wolves' target was infected and lives.
C7_Witness ==
    /\ finish_pc = "victory"
    /\ wolf_target_id # None
    /\ black_infect_target_id = wolf_target_id
    /\ inf_txt = wolf_target_id
    /\ players[wolf_target_id].infected
    /\ players[wolf_target_id].alive
    /\ deaths = {}

\* the unused heal of lg_finish_night is on the wolves' unprotected victim
HealsWolfVictim ==
    /\ FinishStep
    /\ wolf_target_id # None
    /\ protected_id # wolf_target_id
    /\ ~witch_heal_used
    /\ witch_heal_target_id = wolf_target_id

\* C8 as claimed: healing the wolves' unprotected victim leaves the night without
\* death and consumes the heal; any lg_finish_night that sees a heal target
\* leaves the heal consumed.
C8_HealNoDeath ==
    [][/\ HealsWolfVictim => (final_deaths' = {} /\ witch_heal_used')
       /\ (FinishStep /\ witch_heal_target_id # None) => witch_heal_used']_vars

\* C8 amended: healing the wolves' unprotected victim leaves the unused poison's
\* target as the only possible direct kill (no death at all without it) and
\* consumes the heal; any lg_finish_night that sees a heal target leaves the
\* heal consumed.
C8_HealCancelsKill ==
    [][/\ HealsWolfVictim =>
            /\ deaths' = (IF PoisonPending THEN {witch_kill_target_id} ELSE {})
            /\ (~PoisonPending => final_deaths' = {})
            /\ witch_heal_used'
       /\ (FinishStep /\ witch_heal_target_id # None) => witch_heal_used']_vars

\* C8 witness: a night was applied in which the living, unprotected victim of the
\* wolves was healed, and nobody died.
C8_Witness ==
    /\ finish_pc = "victory"
    /\ wolf_target_id # None
    /\ protected_id # wolf_target_id
    /\ witch_heal_target_id = wolf_target_id
    /\ witch_heal_used
    /\ players[wolf_target_id].alive
    /\ final_deaths = {}

\* C9: when the guard protects the wolves' target, that target is among the
\* direct kills of lg_finish_night only as the target of the unused poison, and
\* it dies that night only through that poison or as the lover of another
\* participant who dies.
C9_GuardProtects ==
    [][(FinishStep /\ wolf_target_id # None /\ protected_id = wolf_target_id) =>
          /\ wolf_target_id \in deaths' => (PoisonPending /\ witch_kill_target_id = wolf_target_id)
          /\ wolf_target_id \in final_deaths' =>
                \/ PoisonPending /\ witch_kill_target_id = wolf_target_id
                \/ \E d \in final_deaths' \ {wolf_target_id} :
                       players[d].lover_id = wolf_target_id]_vars

\* C9 witness: a night was applied in which the guard protected the wolves'
\* living target, and it was not killed.
C9_Witness ==
    /\ finish_pc = "victory"
    /\ wolf_target_id # None
    /\ protected_id = wolf_target_id
    /\ players[wolf_target_id].alive
    /\ deaths = {}

\* C10: the living target of an unused poison is dead after lg_finish_night.
C10_PoisonUnconditional ==
    [][(/\ FinishStep
        /\ PoisonPending
        /\ witch_kill_target_id \in Joined
        /\ players[witch_kill_target_id].alive)
           => ~players'[witch_kill_target_id].alive]_vars

\* C10 witness: a night was applied in which the poison killed the participant
\* the guard protected.
C10_Witness ==
    /\ finish_pc = "victory"
    /\ witch_kill_target_id # None
    /\ protected_id = witch_kill_target_id
    /\ witch_kill_target_id \in final_deaths
    /\ ~players[witch_kill_target_id].alive

\* C11: the three "used" flags never go back to FALSE; a lg_finish_night that
\* starts with a flag set does not cancel the wolves' kill by the heal (the kill
\* of an unprotected target stands unless an unused infection is on it), does not
\* add the poison target to the direct kills, and converts nobody by infection;
\* at most one participant is ever marked infected.
C11_OneShot ==
    [][/\ witch_heal_used => witch_heal_used'
       /\ witch_kill_used => witch_kill_used'
       /\ black_infect_used => black_infect_used'
       /\ (FinishStep /\ witch_heal_used) =>
             ((/\ wolf_target_id # None
               /\ protected_id # wolf_target_id
               /\ ~(~black_infect_used /\ black_infect_target_id = wolf_target_id)) =>
                  wolf_target_id \in deaths')
       /\ (FinishStep /\ witch_kill_used) =>
             deaths' \subseteq {wolf_target_id}
       /\ (FinishStep /\ black_infect_used) =>
             \A p \in Joined : /\ players'[p].role = players[p].role
                               /\ players'[p].infected = players[p].infected
       /\ Cardinality({p \in DOMAIN players' : players'[p].infected}) <= 1]_vars

\* C11 witness: in the second night the heal, already used, is on the wolves'
\* unprotected target, who is killed all the same.
C11_Witness ==
    /\ finish_pc = "victory"
    /\ day = 2
    /\ witch_heal_used
    /\ wolf_target_id # None
    /\ protected_id # wolf_target_id
    /\ witch_heal_target_id = wolf_target_id
    /\ wolf_target_id \in final_deaths

\* the step in which lg_vote_end tallies and closes the round
CloseStep == vote_end_pc = "idle" /\ vote_end_pc' = "apply"

\* the step in which lg_vote_end applies the result
ApplyStep == vote_end_pc = "apply" /\ vote_end_pc' # "apply"

\* the voters whose ballot is for t
Ballots(t) == {voter \in DOMAIN vote.votes : vote.votes[voter] = t}

\* the mayor's ballot is for t in a daykill round
MayorBonus(t) ==
    IF vote.kind = "daykill" /\ mayor_id # None /\ mayor_id \in Ballots(t) THEN 1 ELSE 0

WeightedCount(t) == Cardinality(Ballots(t)) + MayorBonus(t)

Voted == {vote.votes[voter] : voter \in DOMAIN vote.votes}

\* the targets whose weighted count is the maximum
Leaders == {t \in Voted : \A u \in Voted : WeightedCount(u) <= WeightedCount(t)}

\* C12: lg_vote_end's winner is the only target with the maximum weighted count,
\* and None when several targets share it or there is no ballot; a result of
\* None changes neither the players nor the mayor when it is applied.
C12_TallyWinner ==
    [][/\ CloseStep =>
            /\ Cardinality(Leaders) = 1 => winner_id' \in Leaders
            /\ Cardinality(Leaders) # 1 => winner_id' = None
       /\ (ApplyStep /\ winner_id = None) =>
            (players' = players /\ mayor_id' = mayor_id)]_vars

\* C12 witness: a round with two ballots for two targets was closed without winner.
C12_Witness ==
    /\ vote_end_pc = "apply"
    /\ ~vote.active
    /\ Cardinality(DOMAIN vote.votes) = 2
    /\ Cardinality(Voted) = 2
    /\ winner_id = None

\* C13: the count of every target is the number of its ballots, plus one when
\* the round is a daykill and the mayor's ballot is among them.
C13_MayorWeight ==
    \A t \in Users : counts(vote, mayor_id, t) = WeightedCount(t)

\* C13 witness: a daykill round with the mayor's ballot for one target and
\* another ballot for a second target was closed, and the mayor's target won.
C13_Witness ==
    /\ vote_end_pc = "apply"
    /\ ~vote.active
    /\ vote.kind = "daykill"
    /\ mayor_id # None
    /\ mayor_id \in DOMAIN vote.votes
    /\ Cardinality(DOMAIN vote.votes) = 2
    /\ Cardinality(Voted) = 2
    /\ winner_id = vote.votes[mayor_id]

\* a party of w living wolves (one of them black), o living players of other
\* roles, a dead wolf and a dead villager
Party(w, o) ==
    [i \in 1..(w + o + 2) |->
        [user_id |-> i,
         role |-> IF i = 1 /\ w > 0 THEN "loup_garou_noir"
                  ELSE IF i <= w THEN "loup_garou"
                  ELSE IF i <= w + o THEN "villageois"
                  ELSE IF i = w + o + 1 THEN "loup_garou" ELSE "villageois",
         alive |-> i <= w + o,
         lover_id |-> None,
         infected |-> FALSE]]

\* the verdict the rule gives for w living wolves and o other living players
Verdict(w, o) ==
    IF w = 0 THEN "village" ELSE IF w >= o THEN "wolves" ELSE "none"

LivingWolves == {p \in Joined : players[p].alive /\ players[p].role \in WOLF_ROLES}

LivingOthers == {p \in Joined : players[p].alive /\ players[p].role \notin WOLF_ROLES}

\* C14: for a started game check_victory gives the village when no living player
\* is a wolf, the wolves when there is a living wolf and the living wolves are at
\* least as many as the other living players, and no winner otherwise; this on
\* the players of every started game and, evaluated in the lobby, on every
\* party of the given sizes (2 wolves against 2 others: the wolves; 3 against
\* 4: no winner).
C14_Victory ==
    IF started
    THEN check_victory(players, started) =
             Verdict(Cardinality(LivingWolves), Cardinality(LivingOthers))
    ELSE /\ \A w \in 0..MaxPartyWolves : \A o \in 0..MaxPartyOthers :
                check_victory(Party(w, o), TRUE) = Verdict(w, o)
         /\ check_victory(Party(2, 2), TRUE) = "wolves"
         /\ check_victory(Party(3, 4), TRUE) = "none"
         /\ check_victory(Party(0, 3), TRUE) = "village"

\* C14 witness: the game ended after a vote because no wolf was left alive.
C14_Witness ==
    /\ started
    /\ phase = "ended"
    /\ vote_end_pc = "idle"
    /\ LivingWolves = {}
    /\ LivingOthers # {}
    /\ check_victory(players, started) = "village"

\* the step in which lg_start deals the roles
StartStep == ~started /\ started'

RoleNames ==
    {"voyante", "sorciere", "garde", "chasseur", "cupidon", "loup_garou",
     "loup_garou_noir", "petite_fille", "villageois"}

\* the composition table: how many of the n roles are r
WolfCount(n) == IF n <= 9 THEN 2 ELSE IF n <= 12 THEN 3 ELSE 4

BlackCount(n) == IF n >= 10 THEN 1 ELSE 0

GirlCount(n) == IF n >= 10 THEN 1 ELSE 0

Expected(n, r) ==
    IF r \in {"voyante", "sorciere", "garde", "chasseur", "cupidon"} THEN 1
    ELSE IF r = "loup_garou_noir" THEN BlackCount(n)
    ELSE IF r = "loup_garou" THEN WolfCount(n) - BlackCount(n)
    ELSE IF r = "petite_fille" THEN GirlCount(n)
    ELSE n - 5 - WolfCount(n) - GirlCount(n)

\* how many players of ps hold the role r
Holders(ps, r) == Cardinality({p \in DOMAIN ps : ps[p].role = r})

\* C15: the roles are dealt only by the creator's /lg start, in a game not yet
\* started with 8 to 15 players; the phase is then "night", the day 0, the
\* players are the same and their roles are those of the composition table for
\* their number.  A /lg start of another caller changes nothing of the game, and
\* as long as the game is not started no player has a role and the phase is
\* neither "night" nor "day".
C15_Start ==
    [][/\ StartStep =>
            /\ phase = "lobby"
            /\ Cardinality(Joined) >= 8
            /\ Cardinality(Joined) <= 15
            /\ phase' = "night"
            /\ day' = 0
            /\ DOMAIN players' = Joined
            /\ \A r \in RoleNames : Holders(players', r) = Expected(Cardinality(Joined), r)
            /\ \A p \in Joined : players'[p].role \in RoleNames
       /\ \A caller \in 1..MaxCaller :
            (caller # created_by /\ lg_start(caller)) =>
                UNCHANGED <<gameVars, slotVars, cupidVars, usedVars, vote, menus, pcVars>>
       /\ ~started' =>
            /\ \A p \in DOMAIN players' : players'[p].role = "none"
            /\ phase' \in {"lobby", "ended"}]_vars

\* C15 witness: a game of 15 players was started after another user had tried
\* to start it.
C15_Witness ==
    /\ started
    /\ phase = "night"
    /\ day = 0
    /\ start_pc = "night"
    /\ denied.command = "start"
    /\ Cardinality(Joined) = 15
    /\ \A p \in Joined : players[p].role # "none"

\* C16: for the number n of joined users, role_distribution(n) has no result
\* outside 8..15, and inside it every result has n roles with the composition of
\* the table; the roles dealt at the start have that composition too.
C16_Distribute ==
    LET n == Cardinality(Joined)
    IN  /\ (n < 8 \/ n > 15) => role_distribution(n) = {}
        /\ (n >= 8 /\ n <= 15) =>
              /\ role_distribution(n) # {}
              /\ \A roles \in role_distribution(n) :
                    /\ Len(roles) = n
                    /\ \A i \in 1..n : roles[i] \in RoleNames
                    /\ \A r \in RoleNames :
                          Cardinality({i \in 1..n : roles[i] = r}) = Expected(n, r)
        /\ started => \A r \in RoleNames : Holders(players, r) = Expected(n, r)

\* C16 witness: thirteen players were dealt four wolves, one of them black, and
\* one little girl.
C16_Witness ==
    /\ started
    /\ Cardinality(Joined) = 13
    /\ Holders(players, "loup_garou") = 3
    /\ Holders(players, "loup_garou_noir") = 1
    /\ Holders(players, "petite_fille") = 1
    /\ Holders(players, "villageois") = 3

\* a command reserved to the creator, issued by caller
OwnerCommand(caller) ==
    \/ lg_start(caller)
    \/ lg_resolve_night(caller)
    \/ lg_finish_night(caller)
    \/ lg_mayor_start(caller)
    \/ lg_dayvote_start(caller)
    \/ lg_vote_end(caller)
    \/ lg_end(caller)

\* C17: /lg start, resolve_night, finish_night, mayor_start, dayvote_start,
\* vote_end or end issued by a user who is not the creator is answered with the
\* creator-only reply and changes nothing of the game: phase, players, votes,
\* night slots, flags, menus and suspended handlers.
C17_NotOwnerRejected ==
    [][\A caller \in 1..MaxCaller :
          (caller # created_by /\ OwnerCommand(caller)) =>
              /\ denied'.user_id = caller
              /\ UNCHANGED <<gameVars, slotVars, cupidVars, usedVars, vote, menus, pcVars,
                             outVars, countVars, closing>>]_vars

\* C17 witness: during a day with an open vote another user than the creator
\* tried to close the vote, and the vote is still open.
C17_Witness ==
    /\ denied.user_id # None
    /\ denied.user_id # created_by
    /\ denied.command = "vote_end"
    /\ phase = "day"
    /\ vote.active
    /\ vote_end_pc = "idle"

\* C18: the phase goes from "day" to "night" only in lg_vote_end, when the round
\* it closed was a daykill round and check_victory finds no winner.
C18_DayToNight ==
    [][(phase = "day" /\ phase' = "night") =>
          /\ vote_end_pc = "victory"
          /\ closing = "daykill"
          /\ check_victory(players, started) = "none"]_vars

\* lg_finish_night applies the first night of a game of 8 players in which the
\* wolves target x, the guard protects somebody else and the witch picked nobody
FirstNightKill(x) ==
    /\ FinishStep
    /\ Cardinality(Joined) = 8
    /\ day = 0
    /\ wolf_target_id = x
    /\ protected_id # None
    /\ protected_id # x
    /\ witch_heal_target_id = None
    /\ witch_kill_target_id = None

Recorded(voter, cible) ==
    [v \in DOMAIN vote.votes \cup {voter} |-> IF v = voter THEN cible ELSE vote.votes[v]]

\* C20: the ballots change only when a round is opened (they are then empty) or
\* when, in an active round, a living player's ballot for a living player
\* is recorded in place of that voter's previous one, all other ballots being
\* kept; the voters and the targets are players of the game.
C20_CastVote ==
    [][/\ vote'.votes # vote.votes =>
            \/ vote'.active /\ vote'.votes = NoVotes
            \/ /\ vote.active
               /\ vote' = [vote EXCEPT !.votes = vote'.votes]
               /\ \E voter \in Joined : \E cible \in Joined :
                     /\ players[voter].alive
                     /\ players[cible].alive
                     /\ vote'.votes = Recorded(voter, cible)
       /\ DOMAIN vote'.votes \subseteq DOMAIN players'
       /\ \A v \in DOMAIN vote'.votes : vote'.votes[v] \in DOMAIN players']_vars

\* C20 witness: on the second day, after a player was eliminated, a round is
\* open and holds ballots, all of living voters for living targets.
C20_Witness ==
    /\ phase = "day"
    /\ day = 2
    /\ vote.active
    /\ \E p \in 1..MaxBallotVoter : p \in Joined /\ ~players[p].alive
    /\ Cardinality(DOMAIN vote.votes) = 2
    /\ \A v \in DOMAIN vote.votes :
          players[v].alive /\ players[vote.votes[v]].alive

\* C21: mayor_id, when set, is a player of the game, and it is written only by
\* lg_vote_end applying the winner of a round that was a mayor round when it
\* was tallied and closed.
C21_MayorElected ==
    [][/\ mayor_id' # None => mayor_id' \in DOMAIN players'
       /\ mayor_id' # mayor_id =>
            /\ ApplyStep
            /\ closing = "mayor"
            /\ winner_id # None
            /\ mayor_id' = winner_id]_vars

\* a step of lg_vote_end after its tally
CloseProgress == vote_end_pc # "idle" /\ vote_end_pc' # vote_end_pc

\* C22: the steps by which lg_vote_end closes a mayor round mark nobody dead
\* and leave the phase as it is, whatever ran while the handler was suspended.
C22_MayorCloseHarmless ==
    [][(CloseProgress /\ closing = "mayor") =>
          /\ phase' = phase
          /\ \A p \in Joined : players'[p].alive = players[p].alive]_vars

\* C23: lg_finish_night announces an infection only when it converted the role
\* of a player in that same run.
C23_InfectionAnnounced ==
    [][(FinishStep /\ inf_txt' # None) =>
          \E p \in Joined : /\ players'[p].role # players[p].role
                            /\ players'[p].infected
                            /\ ~players[p].infected]_vars

\* the step in which a night begins
NightBegins == phase # "night" /\ phase' = "night"

\* C24: when a night begins every night slot is empty and so is the Cupid
\* pairing.
C24_NightStartsEmpty ==
    [][NightBegins =>
          /\ protected_id' = None
          /\ seer_target_id' = None
          /\ wolf_target_id' = None
          /\ witch_heal_target_id' = None
          /\ witch_kill_target_id' = None
          /\ black_infect_target_id' = None
          /\ cupid_targets' = << >>]_vars

\* C25: while the phase is "night" or "day" there is a living wolf, and the
\* living wolves are fewer than the other living players.
C25_WolvesMinority ==
    phase \in {"night", "day"} =>
        /\ Cardinality(LivingWolves) > 0
        /\ Cardinality(LivingWolves) < Cardinality(LivingOthers)

\* C26: in a started game a role changes only in lg_finish_night, from a role
\* that is not a wolf's to "loup_garou", and the player is then marked
\* infected; a marked player is a "loup_garou", and a wolf stays a wolf.
C26_RoleChange ==
    [][/\ started =>
            \A p \in Joined :
                /\ players'[p].role # players[p].role =>
                      /\ FinishStep
                      /\ ~is_wolf(players[p].role)
                      /\ players'[p].role = "loup_garou"
                      /\ players'[p].infected
                /\ is_wolf(players[p].role) => is_wolf(players'[p].role)
       /\ \A p \in DOMAIN players' :
            players'[p].infected => players'[p].role = "loup_garou"]_vars

\* C26 witness: a night was applied in which a player who was no wolf was
\* infected and is now a "loup_garou".
C26_Witness ==
    /\ finish_pc = "victory"
    /\ black_infect_used
    /\ inf_txt # None
    /\ players[inf_txt].infected
    /\ players[inf_txt].role = "loup_garou"

\* C27: in a started game the set of players does not change, and a player who
\* is dead stays dead.
C27_RosterFixed ==
    [][started =>
          /\ DOMAIN players' = DOMAIN players
          /\ \A p \in Joined : ~players[p].alive => ~players'[p].alive]_vars

\* C27 witness: the second night was applied, and a player who had died before
\* it is still dead.
C27_Witness ==
    /\ finish_pc = "victory"
    /\ day = 2
    /\ \E p \in Joined : ~players[p].alive /\ p \notin final_deaths

\* the players of the lovers-chain cases, and the longest stack of direct kills
MaxChainPlayers == 3
MaxChainKills == 3

\* the identities a kill or a bond can name: the players and one stranger
ChainIds == 1..(MaxChainPlayers + 1)

\* the stacks of distinct direct kills, in every order
ChainStacks ==
    {stack \in UNION {[1..n -> ChainIds] : n \in 0..MaxChainKills} :
        \A i, j \in DOMAIN stack : i # j => stack[i] # stack[j]}

\* players with the given bonds and alive flags
ChainPlayers(lovers, living) ==
    [p \in 1..MaxChainPlayers |->
        [PlayerState(p) EXCEPT !.lover_id = lovers[p], !.alive = living[p]]]

Range(seq) == {seq[i] : i \in DOMAIN seq}

\* the loop empties the stack within one iteration per direct kill and one per
\* living player, and finalizes living players only, the living direct kills
\* among them
ChainCase(stack, ps) ==
    LET limit == Len(stack) + Cardinality(alive_ids(ps))
        run == LoversChainRun(stack, {}, ps, limit, 0)
        final == LoversChain(stack, {}, ps)
    IN  /\ run.done
        /\ run.steps <= limit
        /\ run.final = final
        /\ final \subseteq alive_ids(ps)
        /\ Range(stack) \cap alive_ids(ps) \subseteq final
        /\ \A d \in final :
              LET lover == ps[d].lover_id
              IN  (lover \in alive_ids(ps)) => lover \in final

\* C28: the lovers chain of lg_finish_night ends for every stack of direct
\* kills and every bond relation, cyclic or one-sided ones included, and the
\* set it yields holds only players who were alive before it ran; the deaths
\* of an applied night are such a set, closed under the bonds.
C28_ChainTerminates ==
    [][/\ players = << >> =>
            \A lovers \in [1..MaxChainPlayers -> {None} \cup ChainIds] :
                \A living \in [1..MaxChainPlayers -> BOOLEAN] :
                    \A stack \in ChainStacks :
                        ChainCase(stack, ChainPlayers(lovers, living))
       /\ FinishStep =>
            /\ final_deaths' \subseteq alive_ids(players)
            /\ deaths' \cap alive_ids(players') = {}
            /\ \A d \in final_deaths' :
                  /\ ~players'[d].alive
                  /\ Lover(d) \in alive_ids(players) => Lover(d) \in final_deaths'
            /\ \A p \in Joined \ final_deaths' :
                  players'[p].alive = players[p].alive]_vars

\* C28 witness: a night was applied in which a player who was not killed
\* directly died as the lover of one who was.
C28_Witness ==
    /\ finish_pc = "victory"
    /\ \E d \in deaths : \E l \in final_deaths \ deaths :
          /\ players[d].lover_id = l
          /\ ~players[d].alive
          /\ ~players[l].alive

====
